---- MODULE Spec2Model ----
(***************************************************************************)
(* The expense tracker's persistence and query contract: the DataHandler   *)
(* (Store) owning the `expenses` table, the ExpenseManager (Ledger) built   *)
(* on it, and the handlers of app.py that call the Ledger.                  *)
(*                                                                          *)
(* Values.  A day is an integer; a date string "%Y-%m-%d" is the sequence   *)
(* <<d>> of its day (<<0>> is a string no date can be parsed from, <<>> the *)
(* empty string).  An amount is an integer number of currency units.  A     *)
(* description is a sequence of characters.  An optional argument is <<>>   *)
(* for None and <<x>> for a supplied x.  A DataFrame is its columns and the *)
(* sequence of its rows, each a record whose fields are the columns.        *)
(***************************************************************************)
EXTENDS Integers, Sequences, FiniteSets, TLC

\* Largest number of rows the table holds in the model.
MaxRows == 2

\* Largest id a single INSERT is issued in the model; a bulk insert may go
\* MaxRows beyond it.
MaxId == 3

VARIABLES
    table,   \* the rows of the `expenses` table: [id, date, amount, category, description]
    seq,     \* the last value issued by the id sequence of the table
    last,    \* the call that completed last: what was asked and what it returned
    save,    \* DataHandler.save_data in progress, between its two transactions
    shown    \* the frame the Expenses tab rendered last (expenses_with_ids)

vars == <<table, seq, last, save, shown>>

----------------------------------------------------------------------------
(* Input domains *)

categories ==
    << "Food & Dining", "Transportation", "Housing", "Utilities",
       "Entertainment", "Shopping", "Healthcare", "Education", "Travel",
       "Personal Care", "Gifts & Donations", "Other" >>

CategorySet == {categories[i] : i \in DOMAIN categories}

\* The days the model's callers use; Today is the last of them.
Days == {1, 2}
Today == CHOOSE d \in Days : \A e \in Days : e <= d

strftime(d) == <<d>>

DateStrings == {strftime(d) : d \in Days}

\* The categories the model's callers pick from.
CategoryInputs == {categories[1], categories[2]}

\* Python truthiness of the argument kinds (`not x`).
NotStr(s) == s = <<>>
NotNum(n) == n = 0
NotName(c) == c = ""

float(a) == a

RECURSIVE lstrip(_)
lstrip(s) == IF s # <<>> /\ Head(s) = " " THEN lstrip(Tail(s)) ELSE s

RECURSIVE rstrip(_)
rstrip(s) ==
    IF s # <<>> /\ s[Len(s)] = " " THEN rstrip(SubSeq(s, 1, Len(s) - 1)) ELSE s

strip(s) == rstrip(lstrip(s))

\* The arguments a valid request carries.
ValidArgs ==
    { [date |-> d, amount |-> m, category |-> categories[m], description |-> <<"a">>] :
        d \in DateStrings, m \in {1, 2} }

BaseArgs ==
    [date |-> strftime(Today), amount |-> 1, category |-> categories[1],
     description |-> <<"a">>]

\* Requests that differ from a valid one in one argument.
OddArgs ==
    { [BaseArgs EXCEPT !.date = <<>>],
      [BaseArgs EXCEPT !.date = <<0>>],
      [BaseArgs EXCEPT !.amount = 0],
      [BaseArgs EXCEPT !.amount = -1],
      [BaseArgs EXCEPT !.category = ""],
      [BaseArgs EXCEPT !.description = <<>>],
      [BaseArgs EXCEPT !.description = <<" ">>] }

AddArgs == ValidArgs \cup OddArgs

----------------------------------------------------------------------------
(* The database: the expenses table and its queries *)

Ids(rows) == {r.id : r \in rows}

\* The cast of a bound string to the table's date column.
IsDateString(s) == Len(s) = 1 /\ s[1] \in Days
ToDate(s) == s[1]

\* INSERT INTO expenses (date, amount, category, description): the id comes
\* from the table's sequence.
Nextval(s) == s + 1

InsertRow(rows, id, date, amount, category, description) ==
    rows \cup {[id |-> id, date |-> date, amount |-> amount,
                category |-> category, description |-> description]}

\* DELETE FROM expenses WHERE id = :id
DeleteWhereId(rows, id) == {r \in rows : r.id # id}

\* Mutant of TruncateSeq: TRUNCATE TABLE expenses RESTART IDENTITY.
TruncateSeqRestart(s) == 0

\* TRUNCATE TABLE expenses: the rows go, the sequence is left as it is.
TruncateRows(rows) == {}

TruncateSeq(s) == s

\* SELECT ... ORDER BY date DESC: every listing of the rows in which dates
\* do not increase; rows of one date come in an order the query leaves open.
OrderByDateDesc(rows) ==
    LET n == Cardinality(rows)
    IN  { q \in [1..n -> rows] :
            /\ \A i, j \in 1..n : i # j => q[i] # q[j]
            /\ \A i, j \in 1..n : i < j => q[i].date >= q[j].date }

\* Mutant of Handled: the handler names one exception class, `except
\* ValueError`.
HandledValueErrorOnly(exc) == exc = "ValueError"

\* `except Exception`: every exception raised in a try block is handled.
Handled(exc) == exc # "None"

Escaped(exc) == IF Handled(exc) THEN "None" ELSE exc


----------------------------------------------------------------------------
(* DataFrames *)

Frame(columns, rows) == [columns |-> columns, rows |-> rows]

Empty(df) == df.rows = <<>>

Columns(df) == {df.columns[i] : i \in DOMAIN df.columns}

\* df[cols]: the frame cut down to the given columns.
Project(df, cols) ==
    Frame(cols,
          [i \in DOMAIN df.rows |->
              [c \in {cols[k] : k \in DOMAIN cols} |-> df.rows[i][c]]])

\* df.rename(columns=names): columns the dictionary names are renamed.
Renamed(c, names) == IF c \in DOMAIN names THEN names[c] ELSE c

Rename(df, names) ==
    Frame([k \in DOMAIN df.columns |-> Renamed(df.columns[k], names)],
          [i \in DOMAIN df.rows |->
              [c \in {Renamed(d, names) : d \in DOMAIN df.rows[i]} |->
                  df.rows[i][CHOOSE d \in DOMAIN df.rows[i] : Renamed(d, names) = c]]])

\* pd.read_sql of the two queries the program issues.
SelectStar(q) == Frame(<<"id", "date", "amount", "category", "description">>, q)

SelectAsCapitals(q) ==
    Frame(<<"ID", "Date", "Amount", "Category", "Description">>,
          [i \in DOMAIN q |->
              [ID |-> q[i].id, Date |-> q[i].date, Amount |-> q[i].amount,
               Category |-> q[i].category, Description |-> q[i].description]])

rename_dict ==
    [date |-> "Date", amount |-> "Amount", category |-> "Category",
     description |-> "Description"]

lower ==
    [ID |-> "id", Date |-> "date", Amount |-> "amount", Category |-> "category",
     Description |-> "description"]

expected_columns == <<"Date", "Amount", "Category", "Description">>

empty_data == Frame(expected_columns, <<>>)

empty_data_with_ids ==
    Frame(<<"ID", "Date", "Amount", "Category", "Description">>, <<>>)

\* The statement a call's backend fault fails with.
BackendError(fault) == IF fault THEN "OperationalError" ELSE "None"

\* What a call that returns a bool gives its caller.
RetBool(exc) ==
    IF exc = "None" THEN "True" ELSE IF Handled(exc) THEN "False" ELSE "raised"

\* What a call that returns a frame gives its caller.
RetFrame(exc) == IF exc = "None" \/ Handled(exc) THEN "frame" ELSE "raised"

\* A completed call: what was asked (op, args), what came back (ret, the
\* frame returned, the exception that escaped), the Store calls it made, the
\* frame it read from the table on the way, and whether the backend failed
\* while it ran.
Done(op, args, ret, frame, exc, calls, read, fault) ==
    [op |-> op, args |-> args, ret |-> ret, frame |-> frame, exc |-> exc,
     calls |-> calls, read |-> read, fault |-> fault]

\* save_data between calls; `from` keeps where the frame of the last call
\* came from.
Idle(from) == [pc |-> "idle", df |-> empty_data, pre |-> {}, from |-> from]

----------------------------------------------------------------------------
(* DataHandler: the Store *)

\* The frame load_data builds from the rows its query returned.
load_data_frame(q) ==
    LET df == SelectStar(q)
        cut == IF "id" \in Columns(df)
               THEN Project(df, <<"date", "amount", "category", "description">>)
               ELSE df
    IN  Rename(cut, rename_dict)

load_data_returns(q, fault) ==
    LET exc == BackendError(fault)
    IN  [ret |-> RetFrame(exc),
         frame |-> IF exc = "None" THEN load_data_frame(q) ELSE empty_data,
         exc |-> Escaped(exc)]

load_data(fault) ==
    \E q \in OrderByDateDesc(table) :
        LET r == load_data_returns(q, fault)
        IN  /\ last' = Done("load_data", <<>>, r.ret, r.frame, r.exc, <<>>, r.frame,
                            fault)
            /\ UNCHANGED <<table, seq, save, shown>>

\* The exception save_data's checks and its TRUNCATE end with.
save_data_check(df, fault) ==
    IF \E i \in DOMAIN expected_columns : expected_columns[i] \notin Columns(df)
    THEN "ValueError"
    ELSE BackendError(fault)

\* Mutant of to_sql: the last row of the frame is not written.
RECURSIVE to_sql_drops_last(_, _, _)
to_sql_drops_last(rows, s, dfrows) ==
    IF Len(dfrows) <= 1 THEN [table |-> rows, seq |-> s]
    ELSE LET id == Nextval(s)
             r == Head(dfrows)
         IN  to_sql_drops_last(
                 InsertRow(rows, id, r.date, r.amount, r.category, r.description),
                 id, Tail(dfrows))

\* df_sql.to_sql('expenses', if_exists='append', index=False): one INSERT
\* per row, in the frame's order, in one transaction.
RECURSIVE to_sql(_, _, _)
to_sql(rows, s, dfrows) ==
    IF dfrows = <<>> THEN [table |-> rows, seq |-> s]
    ELSE LET id == Nextval(s)
             r == Head(dfrows)
         IN  to_sql(InsertRow(rows, id, r.date, r.amount, r.category, r.description),
                    id, Tail(dfrows))

\* Where the frame handed to save_data came from: the load_data that
\* completed just before (which may have failed), or the caller's own data.
FrameFrom(df) ==
    IF last.op = "load_data" /\ df = last.frame
    THEN (IF last.fault THEN "failed load_data" ELSE "load_data")
    ELSE "caller"

\* save_data up to the commit of its TRUNCATE (lines 71-85).
save_data_truncate(df, fault) ==
    /\ save.pc = "idle"
    /\ LET exc == save_data_check(df, fault)
       IN  IF exc # "None"
           THEN /\ last' = Done("save_data", df, RetBool(exc), empty_data,
                                Escaped(exc), <<>>, empty_data,
                                exc = "OperationalError")
                /\ save' = Idle(FrameFrom(df))
                /\ UNCHANGED <<table, seq>>
           ELSE /\ Len(df.rows) <= MaxRows
                /\ seq + Len(df.rows) <= MaxId + MaxRows
                /\ table' = TruncateRows(table)
                /\ seq' = TruncateSeq(seq)
                /\ save' = [pc |-> "truncated", df |-> Rename(df, lower),
                            pre |-> table, from |-> FrameFrom(df)]
                /\ last' = Done("save_data", df, "running", empty_data, "None", <<>>,
                                empty_data, FALSE)
    /\ UNCHANGED shown

\* save_data from its to_sql to its return (lines 87-94).
save_data_to_sql(fault) ==
    /\ save.pc = "truncated"
    /\ LET exc == BackendError(fault)
           e == to_sql(table, seq, save.df.rows)
       IN  /\ table' = IF exc = "None" THEN e.table ELSE table
           /\ seq' = IF exc = "None" THEN e.seq ELSE seq
           /\ last' = Done("save_data", save.df, RetBool(exc), empty_data,
                           Escaped(exc), <<>>, empty_data, fault)
    /\ save' = Idle(save.from)
    /\ UNCHANGED shown

\* Mutant of add_expense_effect: the INSERT is never committed.
add_expense_effect_no_commit(rows, s, date, amount, category, description, fault) ==
    LET exc == IF fault THEN "OperationalError"
               ELSE IF ~IsDateString(date) THEN "DataError" ELSE "None"
    IN  [ret |-> RetBool(exc), exc |-> Escaped(exc), table |-> rows,
         seq |-> IF exc = "None" THEN Nextval(s) ELSE s]

\* DataHandler.add_expense on the given table.
add_expense_effect(rows, s, date, amount, category, description, fault) ==
    LET exc == IF fault THEN "OperationalError"
               ELSE IF ~IsDateString(date) THEN "DataError" ELSE "None"
        id == Nextval(s)
    IN  [ret |-> RetBool(exc), exc |-> Escaped(exc),
         table |-> IF exc = "None"
                   THEN InsertRow(rows, id, ToDate(date), amount, category, description)
                   ELSE rows,
         seq |-> IF exc = "None" THEN id ELSE s]

DataHandler_add_expense(a, fault) ==
    /\ save.pc = "idle"
    /\ LET e == add_expense_effect(table, seq, a.date, a.amount, a.category,
                                   a.description, fault)
       IN  /\ Cardinality(e.table) <= MaxRows
           /\ e.seq <= MaxId
           /\ table' = e.table
           /\ seq' = e.seq
           /\ last' = Done("DataHandler.add_expense", a, e.ret, empty_data, e.exc, <<>>,
                           empty_data, fault)
    /\ UNCHANGED <<save, shown>>

\* Mutant of delete_expense_by_id_effect: a DELETE that matched no row makes
\* the call return False.
delete_expense_by_id_effect_checks_rowcount(rows, expense_id, fault) ==
    LET exc == BackendError(fault)
    IN  [ret |-> IF exc = "None" /\ DeleteWhereId(rows, expense_id) = rows
                 THEN "False" ELSE RetBool(exc),
         exc |-> Escaped(exc),
         table |-> IF exc = "None" THEN DeleteWhereId(rows, expense_id) ELSE rows]

\* DataHandler.delete_expense_by_id on the given table.
delete_expense_by_id_effect(rows, expense_id, fault) ==
    LET exc == BackendError(fault)
    IN  [ret |-> RetBool(exc), exc |-> Escaped(exc),
         table |-> IF exc = "None" THEN DeleteWhereId(rows, expense_id) ELSE rows]

delete_expense_by_id(expense_id, fault) ==
    /\ save.pc = "idle"
    /\ LET e == delete_expense_by_id_effect(table, expense_id, fault)
       IN  /\ table' = e.table
           /\ last' = Done("delete_expense_by_id", expense_id, e.ret, empty_data,
                           e.exc, <<>>, empty_data, fault)
    /\ UNCHANGED <<seq, save, shown>>

----------------------------------------------------------------------------
(* ExpenseManager: the Ledger *)

\* ExpenseManager.add_expense on the given table.
add_expense_call(rows, s, a, fault) ==
    IF NotStr(a.date) \/ NotNum(a.amount) \/ NotName(a.category)
       \/ NotStr(a.description)
    THEN [ret |-> "False", exc |-> "None", table |-> rows, seq |-> s,
          calls |-> <<>>]
    ELSE LET e == add_expense_effect(rows, s, a.date, float(a.amount), a.category,
                                     a.description, fault)
         IN  [ret |-> e.ret, exc |-> e.exc, table |-> e.table, seq |-> e.seq,
              calls |-> <<"add_expense">>]

ExpenseManager_add_expense(a, fault) ==
    /\ save.pc = "idle"
    /\ LET e == add_expense_call(table, seq, a, fault)
       IN  /\ Cardinality(e.table) <= MaxRows
           /\ e.seq <= MaxId
           /\ table' = e.table
           /\ seq' = e.seq
           /\ last' = Done("add_expense", a, e.ret, empty_data, e.exc, e.calls,
                           empty_data, fault /\ e.calls # <<>>)
    /\ UNCHANGED <<save, shown>>

get_expenses_with_ids_returns(q, fault) ==
    LET exc == BackendError(fault)
    IN  [ret |-> RetFrame(exc),
         frame |-> IF exc = "None" THEN SelectAsCapitals(q) ELSE empty_data_with_ids,
         exc |-> Escaped(exc)]

get_expenses_with_ids(fault) ==
    \E q \in OrderByDateDesc(table) :
        LET r == get_expenses_with_ids_returns(q, fault)
        IN  /\ last' = Done("get_expenses_with_ids", <<>>, r.ret, r.frame, r.exc, <<>>,
                            r.frame, fault)
            /\ UNCHANGED <<table, seq, save, shown>>

get_expenses(fault) ==
    \E q \in OrderByDateDesc(table) :
        LET r == load_data_returns(q, fault)
        IN  /\ last' = Done("get_expenses", <<>>, r.ret, r.frame, r.exc,
                            <<"load_data">>, r.frame, fault)
            /\ UNCHANGED <<table, seq, save, shown>>

\* Mutant of iloc: the row after the one asked for.
iloc_off_by_one(index, n) ==
    IF 0 <= index /\ index + 1 < n THEN index + 2
    ELSE IF -n <= index /\ index < 0 THEN n + index + 1
    ELSE 0

\* The row df.iloc[index] reads of a frame of n rows, counted from 1; 0 when
\* the position is out of bounds and iloc raises IndexError.
iloc(index, n) ==
    IF 0 <= index /\ index < n THEN index + 1
    ELSE IF -n <= index /\ index < 0 THEN n + index + 1
    ELSE 0

\* Mutant of delete_expense_refuses: `index > len(expenses_df)`.
delete_expense_refuses_past_len(df, index) == Empty(df) \/ index > Len(df.rows)

\* The guard of delete_expense (line 58).
delete_expense_refuses(df, index) == Empty(df) \/ index >= Len(df.rows)

\* ExpenseManager.delete_expense, given what its get_expenses_with_ids
\* returned.
delete_expense_effect(rows, r, index, fault) ==
    IF r.ret = "raised"
    THEN [ret |-> "raised", exc |-> r.exc, table |-> rows,
          calls |-> <<"get_expenses_with_ids">>]
    ELSE IF delete_expense_refuses(r.frame, index)
    THEN [ret |-> "False", exc |-> "None", table |-> rows,
          calls |-> <<"get_expenses_with_ids">>]
    ELSE IF iloc(index, Len(r.frame.rows)) = 0
    THEN [ret |-> "raised", exc |-> "IndexError", table |-> rows,
          calls |-> <<"get_expenses_with_ids">>]
    ELSE LET expense_id == r.frame.rows[iloc(index, Len(r.frame.rows))].ID
             e == delete_expense_by_id_effect(rows, expense_id, fault)
         IN  [ret |-> e.ret, exc |-> e.exc, table |-> e.table,
              calls |-> <<"get_expenses_with_ids", "delete_expense_by_id">>]

delete_expense(index, readFault, fault) ==
    /\ save.pc = "idle"
    /\ \E q \in OrderByDateDesc(table) :
        LET r == get_expenses_with_ids_returns(q, readFault)
            e == delete_expense_effect(table, r, index, fault)
        IN  /\ table' = e.table
            /\ last' = Done("delete_expense", index, e.ret, empty_data, e.exc,
                            e.calls, r.frame,
                            readFault \/ (fault /\ Len(e.calls) = 2))
    /\ UNCHANGED <<seq, save, shown>>

\* pd.to_datetime of a date and pd.Timestamp(date): midnight of that day.
Timestamp(d) == [day |-> d, ns |-> 0]

TimestampLeq(a, b) == a.day < b.day \/ (a.day = b.day /\ a.ns <= b.ns)

\* Mutant of filter_expenses_frame: the amount bounds are tested for truth,
\* `if min_amount:`, as the date bounds are.
filter_expenses_frame_truthy(expenses_df, start_date, end_date, cats, min_amount, max_amount) ==
    IF Empty(expenses_df) THEN expenses_df
    ELSE
    LET f0 == [i \in DOMAIN expenses_df.rows |->
                  [expenses_df.rows[i] EXCEPT !.Date = Timestamp(@)]]
        f1 == IF start_date # <<>>
              THEN SelectSeq(f0, LAMBDA r : TimestampLeq(Timestamp(start_date[1]), r.Date))
              ELSE f0
        f2 == IF end_date # <<>>
              THEN SelectSeq(f1, LAMBDA r : TimestampLeq(r.Date, Timestamp(end_date[1])))
              ELSE f1
        f3 == IF cats # <<>> /\ Cardinality(cats[1]) > 0
              THEN SelectSeq(f2, LAMBDA r : r.Category \in cats[1])
              ELSE f2
        f4 == IF min_amount # <<>> /\ ~NotNum(min_amount[1])
              THEN SelectSeq(f3, LAMBDA r : r.Amount >= min_amount[1])
              ELSE f3
        f5 == IF max_amount # <<>> /\ ~NotNum(max_amount[1])
              THEN SelectSeq(f4, LAMBDA r : r.Amount <= max_amount[1])
              ELSE f4
    IN  Frame(expenses_df.columns, f5)

\* The frame filter_expenses builds from what get_expenses returned.
filter_expenses_frame(expenses_df, start_date, end_date, cats, min_amount, max_amount) ==
    IF Empty(expenses_df) THEN expenses_df
    ELSE
    LET f0 == [i \in DOMAIN expenses_df.rows |->
                  [expenses_df.rows[i] EXCEPT !.Date = Timestamp(@)]]
        f1 == IF start_date # <<>>
              THEN SelectSeq(f0, LAMBDA r : TimestampLeq(Timestamp(start_date[1]), r.Date))
              ELSE f0
        f2 == IF end_date # <<>>
              THEN SelectSeq(f1, LAMBDA r : TimestampLeq(r.Date, Timestamp(end_date[1])))
              ELSE f1
        f3 == IF cats # <<>> /\ Cardinality(cats[1]) > 0
              THEN SelectSeq(f2, LAMBDA r : r.Category \in cats[1])
              ELSE f2
        f4 == IF min_amount # <<>>
              THEN SelectSeq(f3, LAMBDA r : r.Amount >= min_amount[1])
              ELSE f3
        f5 == IF max_amount # <<>>
              THEN SelectSeq(f4, LAMBDA r : r.Amount <= max_amount[1])
              ELSE f4
    IN  Frame(expenses_df.columns, f5)

\* The filters the model's callers ask for.
FilterArgs ==
    [start_date : {<<>>, <<2>>}, end_date : {<<>>, <<1>>, <<2>>},
     categories : {<<>>, <<{}>>, <<{categories[1]}>>},
     min_amount : {<<>>, <<0>>, <<2>>}, max_amount : {<<>>, <<1>>}]

filter_expenses(f, fault) ==
    \E q \in OrderByDateDesc(table) :
        LET r == load_data_returns(q, fault)
            out == filter_expenses_frame(r.frame, f.start_date, f.end_date,
                                         f.categories, f.min_amount, f.max_amount)
        IN  /\ last' = Done("filter_expenses", f, r.ret,
                            IF r.ret = "raised" THEN empty_data ELSE out,
                            r.exc, <<"load_data">>, r.frame, fault)
            /\ UNCHANGED <<table, seq, save, shown>>

----------------------------------------------------------------------------
(* app.py: the handlers of the page *)

\* Mutant of add_expense_form_error: the amount is not checked.
add_expense_form_error_no_amount(amount, description) ==
    IF NotStr(strip(description)) THEN "Please provide a description." ELSE ""

\* The message the add form's checks end with ("" when they pass).
add_expense_form_error(amount, description) ==
    IF amount <= 0 THEN "Amount must be greater than zero."
    ELSE IF NotStr(strip(description)) THEN "Please provide a description."
    ELSE ""

\* A run of the script down to the Expenses tab reads the table anew.
Rendered(rows, fault) ==
    {get_expenses_with_ids_returns(q, fault).frame : q \in OrderByDateDesc(rows)}

\* The submit of the sidebar form, and the run of the script that follows.
add_expense_form(date_input, amount, category, description, fault, renderFault) ==
    /\ save.pc = "idle"
    /\ LET a == [date |-> strftime(date_input), amount |-> amount,
                 category |-> category, description |-> description]
           error == add_expense_form_error(amount, description)
           e == IF error # ""
                THEN [ret |-> "False", exc |-> "None", table |-> table, seq |-> seq,
                      calls |-> <<>>]
                ELSE add_expense_call(table, seq, a, fault)
       IN  /\ Cardinality(e.table) <= MaxRows
           /\ e.seq <= MaxId
           /\ table' = e.table
           /\ seq' = e.seq
           /\ last' = Done("add_expense_form", a,
                           IF error # "" THEN error ELSE "Expense added successfully!",
                           empty_data, e.exc,
                           IF error # "" THEN <<>>
                           ELSE <<"ExpenseManager.add_expense">> \o e.calls,
                           empty_data, fault /\ e.calls # <<>>)
           /\ shown' \in Rendered(e.table, renderFault)
    /\ UNCHANGED save

\* A click on "Delete Selected Expense" with the row number the rendered
\* frame allows: the script runs again, reads the table, and where it finds
\* rows calls delete_expense; a delete that succeeded runs the script anew.
delete_selected_expense(expense_to_delete, renderFault, readFault, fault) ==
    /\ save.pc = "idle"
    /\ ~Empty(shown)
    /\ expense_to_delete \in 0..(Len(shown.rows) - 1)
    /\ \E expenses_with_ids \in Rendered(table, renderFault) :
         IF Empty(expenses_with_ids)
         THEN /\ shown' = expenses_with_ids
              /\ last' = Done("delete_selected_expense", expense_to_delete,
                              "not rendered", empty_data, "None", <<>>,
                              expenses_with_ids, renderFault)
              /\ UNCHANGED table
         ELSE \E q \in OrderByDateDesc(table) :
                LET r == get_expenses_with_ids_returns(q, readFault)
                    e == delete_expense_effect(table, r, expense_to_delete, fault)
                IN  /\ table' = e.table
                    /\ last' = Done("delete_selected_expense", expense_to_delete,
                                    e.ret, empty_data, e.exc,
                                    <<"ExpenseManager.delete_expense">> \o e.calls,
                                    r.frame,
                                    readFault \/ (fault /\ Len(e.calls) = 2))
                    /\ IF e.ret = "True"
                       THEN shown' \in Rendered(e.table, FALSE)
                       ELSE shown' = expenses_with_ids
    /\ UNCHANGED <<seq, save>>

\* A run of the script no handler takes part in.
rerun(renderFault) ==
    /\ shown' \in Rendered(table, renderFault)
    /\ last' = Done("rerun", <<>>, "None", empty_data, "None", <<>>, shown',
                    renderFault)
    /\ UNCHANGED <<table, seq, save>>

----------------------------------------------------------------------------
(* The Ledger and the Store as their callers may use them *)

Init ==
    /\ table = {}
    /\ seq = 0
    /\ last = Done("none", <<>>, "None", empty_data, "None", <<>>, empty_data,
                   FALSE)
    /\ save = Idle("caller")
    /\ shown = empty_data_with_ids

\* The frames a caller hands to save_data: the frame load_data returned last,
\* frames of its own, and a frame that lacks a column.
OwnFrames ==
    LET r1 == [Date |-> 1, Amount |-> 1, Category |-> categories[1],
               Description |-> <<"a">>]
        r2 == [Date |-> 2, Amount |-> 2, Category |-> categories[2],
               Description |-> <<"a">>]
    IN  { Frame(expected_columns, rows) :
            rows \in {<<>>, <<r1>>, <<r2>>, <<r1, r1>>, <<r1, r2>>} }
        \cup {Frame(<<"Date", "Amount", "Category">>, <<>>)}

SaveArgs == OwnFrames \cup (IF last.op = "load_data" THEN {last.frame} ELSE {})

\* What the Store's direct callers insert.
StoreArgs ==
    { BaseArgs, [BaseArgs EXCEPT !.date = strftime(1), !.amount = 2],
      [BaseArgs EXCEPT !.date = <<0>>] }

\* The Ledger taking requests of every kind: adds of valid and of odd
\* arguments, with and without a backend fault, listings, and deletes of
\* rows that are there.
Next ==
    \/ \E a \in AddArgs, fault \in BOOLEAN : ExpenseManager_add_expense(a, fault)
    \/ \E index \in 0..(MaxRows - 1) : delete_expense(index, FALSE, FALSE)
    \/ \E fault \in BOOLEAN : get_expenses(fault)
    \/ \E fault \in BOOLEAN : get_expenses_with_ids(fault)

Spec == Init /\ [][Next]_vars

\* The positions the model's callers ask delete_expense for: in range, past
\* the end and negative.
Indexes == -(MaxRows + 1)..(MaxRows + 1)

\* The Ledger deleting by row position, over the tables valid adds build.
NextDelete ==
    \/ \E a \in ValidArgs : ExpenseManager_add_expense(a, FALSE)
    \/ \E index \in Indexes,
          faults \in {<<FALSE, FALSE>>, <<TRUE, FALSE>>, <<FALSE, TRUE>>} :
          delete_expense(index, faults[1], faults[2])

SpecDelete == Init /\ [][NextDelete]_vars

\* The Store as its callers use it.
NextStore ==
    \/ \E fault \in BOOLEAN : load_data(fault)
    \/ \E fault \in BOOLEAN : get_expenses_with_ids(fault)
    \/ \E df \in SaveArgs, fault \in BOOLEAN : save_data_truncate(df, fault)
    \/ \E fault \in BOOLEAN : save_data_to_sql(fault)
    \/ \E a \in StoreArgs, fault \in BOOLEAN : DataHandler_add_expense(a, fault)
    \/ \E id \in 1..(MaxId + MaxRows), fault \in BOOLEAN :
          delete_expense_by_id(id, fault)

SpecStore == Init /\ [][NextStore]_vars

\* The Ledger's filter over the tables its callers build.  A filter that
\* follows a filter reads the same table and is left out.
NextFilter ==
    \/ \E a \in ValidArgs \cup {[BaseArgs EXCEPT !.amount = -1]} :
          ExpenseManager_add_expense(a, FALSE)
    \/ /\ last.op # "filter_expenses"
       /\ \E f \in FilterArgs, fault \in BOOLEAN : filter_expenses(f, fault)

SpecFilter == Init /\ [][NextFilter]_vars

\* What the widgets of the add form hand to its handler.
FormAmounts == {-1, 0, 1}
FormDescriptions == {<<>>, <<" ">>, <<"a">>}

\* The page as its user drives it.
NextApp ==
    \/ \E date_input \in Days, amount \in FormAmounts,
          description \in FormDescriptions, fault, renderFault \in BOOLEAN :
          add_expense_form(date_input, amount, categories[1], description, fault,
                           renderFault)
    \/ \E expense_to_delete \in 0..(MaxRows - 1),
          renderFault, readFault, fault \in BOOLEAN :
          delete_selected_expense(expense_to_delete, renderFault, readFault, fault)
    \/ \E renderFault \in BOOLEAN : rerun(renderFault)

SpecApp == Init /\ [][NextApp]_vars

----------------------------------------------------------------------------
(* Two sessions on one table.  The first session's click on "Delete        *)
(* Selected Expense" is taken statement by statement: the read of the run   *)
(* of the script (app.py line 95), the read of delete_expense               *)
(* (expense_manager.py line 56) and its DELETE (line 65).  `last` and       *)
(* `shown` are the first session's; the second session's calls change the   *)
(* table only.                                                              *)

\* The first session is inside a click on "Delete Selected Expense".
InClick == last.op = "delete_selected_expense" /\ last.ret \in {"rendered", "running"}

\* The click: the script runs again and reads the table for the page; with
\* no rows there is no button to have been clicked.
delete_click_render(expense_to_delete) ==
    /\ ~InClick
    /\ ~Empty(shown)
    /\ expense_to_delete \in 0..(Len(shown.rows) - 1)
    /\ \E expenses_with_ids \in Rendered(table, FALSE) :
         /\ shown' = expenses_with_ids
         /\ last' = Done("delete_selected_expense",
                         [index |-> expense_to_delete, seen |-> expenses_with_ids],
                         IF Empty(expenses_with_ids) THEN "not rendered"
                         ELSE "rendered",
                         empty_data, "None", <<>>, empty_data_with_ids, FALSE)
                    @@ [removed |-> {}]
    /\ UNCHANGED <<table, seq, save>>

\* delete_expense down to the row it picks (lines 56-62).
delete_expense_read ==
    /\ InClick
    /\ last.ret = "rendered"
    /\ \E q \in OrderByDateDesc(table) :
         LET r == get_expenses_with_ids_returns(q, FALSE)
             index == last.args.index
         IN  last' = [last EXCEPT
                        !.ret = IF delete_expense_refuses(r.frame, index) THEN "False"
                                ELSE IF iloc(index, Len(r.frame.rows)) = 0
                                THEN "raised" ELSE "running",
                        !.exc = IF ~delete_expense_refuses(r.frame, index)
                                   /\ iloc(index, Len(r.frame.rows)) = 0
                                THEN "IndexError" ELSE "None",
                        !.calls = <<"ExpenseManager.delete_expense",
                                    "get_expenses_with_ids">>,
                        !.read = r.frame]
    /\ UNCHANGED <<table, seq, save, shown>>

\* The id delete_expense has picked from the frame it read (line 62).
expense_id_picked(call) ==
    call.read.rows[iloc(call.args.index, Len(call.read.rows))].ID

\* delete_expense's call of delete_expense_by_id (line 65), and the run of
\* the script that follows a True (lines 119-121).
delete_expense_delete ==
    /\ InClick
    /\ last.ret = "running"
    /\ LET e == delete_expense_by_id_effect(table, expense_id_picked(last), FALSE)
       IN  /\ table' = e.table
           /\ last' = [last EXCEPT !.ret = e.ret, !.exc = e.exc,
                                   !.calls = Append(@, "delete_expense_by_id"),
                                   !.removed = table \ e.table]
           /\ IF e.ret = "True"
              THEN shown' \in Rendered(e.table, FALSE)
              ELSE shown' = shown
    /\ UNCHANGED <<seq, save>>

\* A run of the first session's script outside a click.
first_session_rerun == ~InClick /\ rerun(FALSE)

\* The second session adds an expense.
second_session_add_expense(a) ==
    LET e == add_expense_call(table, seq, a, FALSE)
    IN  /\ Cardinality(e.table) <= MaxRows
        /\ e.seq <= MaxId
        /\ table' = e.table
        /\ seq' = e.seq
        /\ UNCHANGED <<last, save, shown>>

\* The second session deletes the expense at a position of its own listing.
second_session_delete_expense(index) ==
    /\ table # {}
    /\ \E q \in OrderByDateDesc(table) :
         LET r == get_expenses_with_ids_returns(q, FALSE)
             e == delete_expense_effect(table, r, index, FALSE)
         IN  /\ e.ret = "True"
             /\ table' = e.table
    /\ UNCHANGED <<seq, last, save, shown>>

\* What the second session adds: one expense for each day.
SessionArgs == {a \in ValidArgs : a.amount = 1}

NextSessions ==
    \/ first_session_rerun
    \/ \E expense_to_delete \in 0..(MaxRows - 1) : delete_click_render(expense_to_delete)
    \/ delete_expense_read
    \/ delete_expense_delete
    \/ \E a \in SessionArgs : second_session_add_expense(a)
    \/ \E index \in 0..(MaxRows - 1) : second_session_delete_expense(index)

SpecSessions == Init /\ [][NextSessions]_vars

----------------------------------------------------------------------------
(* What the claims speak of *)

Range(sq) == {sq[i] : i \in DOMAIN sq}

\* The listings getExpensesWithIds can return of a table, the backend up.
Listings(rows) ==
    {get_expenses_with_ids_returns(q, FALSE).frame.rows : q \in OrderByDateDesc(rows)}

DateDescending(rows) ==
    \A i, j \in DOMAIN rows : i < j => rows[i].Date >= rows[j].Date

\* A valid input: amount > 0, a description that is not empty, a category
\* of the fixed set, a date that is not in the future.
ValidInput(a) ==
    /\ a.amount > 0
    /\ a.description # <<>>
    /\ a.category \in CategorySet
    /\ \E d \in Days : d <= Today /\ a.date = strftime(d)

\* The listed row holds what the request asked to record.
Matches(row, a) ==
    /\ strftime(row.Date) = a.date
    /\ row.Amount = a.amount
    /\ row.Category = a.category
    /\ row.Description = a.description

\* A record without its id, of a table row and of a frame row.
Content(r) == <<r.date, r.amount, r.category, r.description>>
FrameContent(r) == <<r.Date, r.Amount, r.Category, r.Description>>

Contents(rows) == {Content(r) : r \in rows}
FrameContents(df) == {FrameContent(df.rows[i]) : i \in DOMAIN df.rows}

\* The table a call started from: a save_data that has truncated started
\* from the table it cleared.
Before == IF save.pc = "truncated" THEN save.pre ELSE table

\* The step ends a save_data call.
SaveDataReturns == last'.op = "save_data" /\ last'.ret # "running"

----------------------------------------------------------------------------
(* C1 *)

\* C1: an addExpense of a valid input, the backend up, succeeds, and
\* getExpensesWithIds then lists the records there were before plus exactly
\* one more, under a new id, whose date, amount, category and description
\* are the input's; the listing is ordered by date descending.
C1_AddThenList ==
    [][ (last'.op = "add_expense" /\ ValidInput(last'.args) /\ ~last'.fault)
        => /\ last'.ret = "True"
           /\ \A before \in Listings(table), after \in Listings(table') :
                /\ Len(after) = Len(before) + 1
                /\ Range(before) \subseteq Range(after)
                /\ \E k \in DOMAIN after :
                     /\ after[k] \notin Range(before)
                     /\ after[k].ID \notin {r.ID : r \in Range(before)}
                     /\ Matches(after[k], last'.args)
                /\ DateDescending(after) ]_vars

\* A valid add has succeeded on a table that held a record already.
C1_Witness ==
    /\ last.op = "add_expense"
    /\ ValidInput(last.args)
    /\ last.ret = "True"
    /\ Cardinality(table) >= 2

----------------------------------------------------------------------------
(* C2 *)

----------------------------------------------------------------------------
(* C3 *)

\* C3: deleteExpense(i) with i >= len(expenses), or on an empty table,
\* returns false and leaves the table as it was.
C3_DeletePastEndFails ==
    [][ (/\ last'.op = "delete_expense"
         /\ (last'.args >= Cardinality(table) \/ table = {}))
        => /\ last'.ret = "False"
           /\ table' = table ]_vars

\* A position past the end of a table that holds records has been refused,
\* the backend up.
C3_Witness ==
    /\ last.op = "delete_expense"
    /\ ~last.fault
    /\ table # {}
    /\ last.args = Cardinality(table)
    /\ last.ret = "False"

----------------------------------------------------------------------------
(* C10 *)

\* C10: deleteExpense(rowPosition) fails for every position not in
\* 0..len-1, the negative ones included: it returns false, issues no delete
\* to the store, and the table is unchanged.
C10_DeleteRejectsEveryPositionOutOfRange ==
    [][ (/\ last'.op = "delete_expense"
         /\ last'.args \notin 0..(Cardinality(table) - 1))
        => /\ last'.ret = "False"
           /\ "delete_expense_by_id" \notin Range(last'.calls)
           /\ table' = table ]_vars

----------------------------------------------------------------------------
(* C4 *)

\* C4: replaceAll is atomic: a reader never observes the table cleared but
\* not yet refilled (what it loads is what was there before the call or
\* what the call puts there), and when replaceAll returns false the table
\* holds the records it held before the call.
C4_ReplaceAllAtomic ==
    [][ /\ (/\ save.pc = "truncated"
            /\ last'.op \in {"load_data", "get_expenses_with_ids"}
            /\ ~last'.fault)
           => FrameContents(last'.frame)
                 \in {Contents(save.pre), Contents(Range(save.df.rows))}
        /\ (SaveDataReturns /\ last'.ret = "False") => table' = Before ]_vars

----------------------------------------------------------------------------
(* C5 *)

\* C5 as claimed: replaceAll(loadAll()) leaves the table's set of records
\* unchanged whatever loadAll returned, the empty sequence of a failed load
\* included (stated here for the calls in which replaceAll itself meets no
\* backend failure).
C5_RoundTripWhateverLoaded ==
    [][ (/\ SaveDataReturns
         /\ save'.from \in {"load_data", "failed load_data"}
         /\ ~last'.fault)
        => Contents(table') = Contents(Before) ]_vars

\* C5 as amended: for what loadAll returns when it does not fail,
\* replaceAll(loadAll()) returns true unless the backend fails under it, and
\* when it returns true the table holds the same set of (date, amount,
\* category, description) records, in as many rows, as before; when it
\* returns false the table is as it was or has been cleared.
C5_RoundTripOfGoodLoad ==
    [][ (SaveDataReturns /\ save'.from = "load_data")
        => /\ ~last'.fault => last'.ret = "True"
           /\ last'.ret = "True"
              => /\ Contents(table') = Contents(Before)
                 /\ Cardinality(table') = Cardinality(Before)
           /\ last'.ret = "False" => (table' = Before \/ table' = {}) ]_vars

\* A table of two records has gone through load_data and save_data.
C5_Witness ==
    /\ last.op = "save_data"
    /\ last.ret = "True"
    /\ save.from = "load_data"
    /\ Cardinality(table) = 2

----------------------------------------------------------------------------
(* C6 *)

BoolOps == {"DataHandler.add_expense", "delete_expense_by_id", "save_data"}
FrameOps == {"load_data", "get_expenses_with_ids"}

\* C6: no Store operation lets an exception reach its caller, and when the
\* backend fails during the call insert, deleteById and replaceAll return
\* false and loadAll and loadAllWithIds return an empty sequence.
C6_StoreIsDefensive ==
    last.op \in BoolOps \cup FrameOps
    => /\ last.exc = "None"
       /\ last.ret # "raised"
       /\ last.fault => IF last.op \in BoolOps THEN last.ret = "False"
                        ELSE last.ret = "frame" /\ Empty(last.frame)

\* The backend has failed under a load_data of a table that holds records.
C6_Witness ==
    /\ last.op = "load_data"
    /\ last.fault
    /\ table # {}

----------------------------------------------------------------------------
(* C7 *)

\* Every row a step puts in the table has an id the sequence had not issued
\* before the step, so no id is given to two records and the id of a
\* deleted record is not issued again; the sequence never goes back.
FreshIds ==
    /\ seq' >= seq
    /\ \A r \in table' : r.id <= seq'
    /\ \A r \in table' \ table : r.id > seq

\* A record that is still in the table has kept its id: where a completed
\* call leaves at least as many records of some content as it found, it
\* leaves the rows it found.
StayingRowsKeepIds ==
    \A r \in Before :
        Cardinality({t \in table' : Content(t) = Content(r)})
           >= Cardinality({t \in Before : Content(t) = Content(r)})
        => r \in table'

\* C7 as claimed: after any sequence of insert, deleteById and replaceAll,
\* ids are never reused or renumbered: no id goes to two records, and a
\* record that stays in the table keeps the id it was created with.
C7_IdsNeverReusedNorRenumbered ==
    [][ /\ FreshIds
        /\ save'.pc = "idle" => StayingRowsKeepIds ]_vars

\* C7 as amended: after any sequence of insert, deleteById and replaceAll,
\* no id is ever given to two records and the id of a removed record is
\* never issued again; insert and deleteById leave every remaining record
\* its id, while replaceAll removes every record and gives each record it
\* inserts a new id, those it inserts again included.
C7_IdsNeverReused ==
    [][ /\ FreshIds
        /\ (save'.pc = "idle" /\ last'.op # "save_data") => StayingRowsKeepIds
        /\ (SaveDataReturns /\ last'.ret = "True")
           => /\ Ids(table') \cap Ids(Before) = {}
              /\ Cardinality(table') = Len(last'.args.rows) ]_vars

\* A replaceAll has put records back under ids past those issued before.
C7_Witness ==
    /\ last.op = "save_data"
    /\ last.ret = "True"
    /\ table # {}
    /\ \A r \in table : r.id > Cardinality(table)

----------------------------------------------------------------------------
(* C8 *)

----------------------------------------------------------------------------
(* C9 *)

\* The record satisfies every supplied predicate of the filter.
Satisfies(r, f) ==
    /\ f.start_date # <<>> => r.Date >= f.start_date[1]
    /\ f.end_date # <<>> => r.Date <= f.end_date[1]
    /\ (f.categories # <<>> /\ f.categories[1] # {}) => r.Category \in f.categories[1]
    /\ f.min_amount # <<>> => r.Amount >= f.min_amount[1]
    /\ f.max_amount # <<>> => r.Amount <= f.max_amount[1]

\* The filtered row is the record, its date held as a timestamp.
SameRecord(out, r) ==
    /\ out.Date = Timestamp(r.Date)
    /\ out.Amount = r.Amount
    /\ out.Category = r.Category
    /\ out.Description = r.Description

NoBounds ==
    [start_date |-> <<>>, end_date |-> <<>>, categories |-> <<>>,
     min_amount |-> <<>>, max_amount |-> <<>>]

\* C9: filterExpenses returns exactly the records of getExpenses() that
\* satisfy all supplied predicates together, in the same order; an omitted
\* bound removes nothing, and with all bounds omitted the full table is
\* returned.
C9_FilterIsConjunction ==
    last.op = "filter_expenses"
    => LET all == last.read.rows
           kept == SelectSeq(all, LAMBDA r : Satisfies(r, last.args))
           out == last.frame.rows
       IN  /\ last.frame.columns = last.read.columns
           /\ Len(out) = Len(kept)
           /\ \A i \in DOMAIN out : SameRecord(out[i], kept[i])
           /\ last.args = NoBounds => Len(out) = Len(all)

\* A filter with every bound supplied has kept one record of two.
C9_Witness ==
    /\ last.op = "filter_expenses"
    /\ \A k \in DOMAIN last.args : last.args[k] # <<>>
    /\ Len(last.read.rows) = 2
    /\ Len(last.frame.rows) = 1

----------------------------------------------------------------------------
(* C11 *)

\* The first session's delete_expense has made its call of
\* delete_expense_by_id.
ClickDeleted == last.op = "delete_selected_expense" /\ last.ret = "running"

\* C11: the delete by row position has no isolation.  Whatever the second
\* session did to the table since the first session's page was read and
\* since delete_expense read the table again, the DELETE of the first
\* session is for the id delete_expense picked from its own read, removes
\* the rows under that id that are still there and no other, and returns
\* True, a row removed or not.
C11_DeleteByPositionNotIsolated ==
    [][ (ClickDeleted /\ last' # last)
        => /\ last'.ret = "True"
           /\ table' = {r \in table : r.id # expense_id_picked(last)}
           /\ last'.removed = table \ table'
           /\ Cardinality(last'.removed) <= 1 ]_vars

\* The first session's delete returned True and removed a record that is
\* not the one its page showed at the position given: another id, of
\* another date.
C11_Witness ==
    /\ last.op = "delete_selected_expense"
    /\ last.ret = "True"
    /\ last.args.index < Len(last.args.seen.rows)
    /\ \E r \in last.removed :
         LET seen == last.args.seen.rows[last.args.index + 1]
         IN  r.id # seen.ID /\ r.date # seen.Date

\* The first session's delete returned True and removed no record.
C11_WitnessNothingRemoved ==
    /\ last.op = "delete_selected_expense"
    /\ last.ret = "True"
    /\ last.removed = {}

====
